---- MODULE Spec2Model ----
(***************************************************************************)
(* A model of the research bot (src/bot.py): the PubMed searcher, the PDF  *)
(* acquirer and the project store, with the three commands that drive them.*)
(* Coroutines are interleaved only at their await points: every action is   *)
(* the code that runs from one await to the next.                          *)
(***************************************************************************)
EXTENDS Integers, Sequences, FiniteSets, TLC

VARIABLES
    clock,      \* datetime.now(), in whole seconds
    dirs,       \* the project directories under base_dir
    metadata,   \* per project directory: its metadata.json
    results,    \* per project directory: its papers_metadata.json
    files,      \* per papers directory: file name -> "absent" | "partial" | "complete"
    cmd,        \* per task: the caller (a command, or a direct call of a component)
    acq,        \* per task: the running _try_download_paper call
    srch,       \* per task: the running PubMedSearcher.search_papers call
    hist,       \* completed _try_download_paper calls made directly
    last,       \* the last completed PubMedSearcher.search_papers call made directly
    issued,     \* number of commands received so far
    creations   \* the directories create_project returned, in order

store == <<clock, dirs, metadata, results>>
trail == <<hist, last, issued, creations>>
vars ==
    <<clock, dirs, metadata, results, files, cmd, acq, srch, hist, last, issued,
      creations>>

\* ------------------------------------------------------------------ bounds

MaxCalls == 2        \* acquire calls made by the direct caller
MaxClock == 1        \* wall-clock seconds during which commands are issued
MaxCommands == 3     \* commands received by the bot

\* ------------------------------------------------------------------ data

None == "None"                       \* Python's None in an optional string field

WordChars == {"a", "b", "N", "o", "t", "i", "l", "e"}   \* characters matched by \w
KeptChars == WordChars \cup {" ", "-"}
Titles == {<<"a">>, <<"a", "!">>}  \* two titles, equal once sanitised
DefaultTitle == <<"N", "o", " ", "t", "i", "t", "l", "e">>       \* "No title"

TitleCap == 50

Dois == {"10.1/x"}
Pmids == {"111"}

PaperRecords ==
    [title : Titles \cup {DefaultTitle}, doi : Dois \cup {None}, pmid : Pmids \cup {None}]

\* the papers a direct caller hands to the acquirer
AcquirePapers == {p \in PaperRecords : p.title \in Titles}

\* paper.get('doi') / paper.get('pmid') / paper['pmid'] or ...: truthiness
Truthy(v) == v # None /\ v # ""

Take(s, n) == SubSeq(s, 1, IF Len(s) < n THEN Len(s) ELSE n)

\* re.sub(r'[^\w\s-]', '', paper['title'])[:50]
SafeTitle(title) ==
    Take(SelectSeq(title, LAMBDA c : c \in KeptChars), TitleCap)

\* f"{paper['pmid'] or 'unknown'}_{safe_title}.pdf"; the two parts are kept
\* apart, identifiers being digit strings (no "_")
Filename(paper) ==
    <<IF Truthy(paper.pmid) THEN paper.pmid ELSE "unknown", SafeTitle(paper.title)>>

Filenames == {Filename(p) : p \in PaperRecords}

\* UrlsToTry with the direct repository URL put first
UrlsToTryReversed(paper) ==
    (IF Truthy(paper.pmid) THEN <<"pmc">> ELSE <<>>)
        \o (IF Truthy(paper.doi) THEN <<"unpaywall">> ELSE <<>>)

\* urls_to_try: the DOI open-access lookup, then the direct repository URL
UrlsToTry(paper) ==
    (IF Truthy(paper.doi) THEN <<"unpaywall">> ELSE <<>>)
        \o (IF Truthy(paper.pmid) THEN <<"pmc">> ELSE <<>>)

\* what the upstream may answer to a candidate GET
CandidateResponses ==
    [exc : {TRUE}, status : {0}, ctype : {""}, json_ok : {FALSE},
     is_oa : {FALSE}, has_loc : {FALSE}, has_url : {FALSE}]
    \cup
    [exc : {FALSE}, status : {200, 404}, ctype : {"application/pdf", "text/html"},
     json_ok : {FALSE}, is_oa : {FALSE}, has_loc : {FALSE}, has_url : {FALSE}]
    \cup
    [exc : {FALSE}, status : {200, 404}, ctype : {"application/json"},
     json_ok : BOOLEAN, is_oa : BOOLEAN, has_loc : BOOLEAN, has_url : BOOLEAN]

\* what the upstream may answer to the second GET (the reported PDF URL)
DirectResponses == [exc : BOOLEAN, status : {200, 404}]

\* what iter_chunked may deliver next
ChunkEvents == {"chunk", "eof", "exc"}

\* ------------------------------------------------------------ project names

Tasks == {1, 2}                      \* coroutines the event loop may run at once

\* ' '.join(keywords), kept as the sequence of its words
Queries == {<<"crispr">>, <<"phage">>}

\* hashlib.md5(query.encode()).hexdigest()[:8], tabulated: the digests of
\* "crispr", "phage" and "crispr phage"
QueryHash(q) ==
    IF q = <<"crispr">> THEN "3f2f5a67"
    ELSE IF q = <<"phage">> THEN "bcc03dc4"
    ELSE "2da9c41f"

\* f"project_{timestamp}_{query_hash}", timestamp to the second
ProjectName(now, q) == <<now, QueryHash(q)>>

ProjectNames == {ProjectName(ts, q) : ts \in 0..MaxClock, q \in Queries}

TargetDir == ProjectName(0, <<"crispr">>)

NoPaper == [title |-> <<>>, doi |-> None, pmid |-> None]

\* ------------------------------------------------------- project store

NoDoc == [exists |-> FALSE, doc |-> <<>>]
NoResults == [exists |-> FALSE, papers |-> <<>>]

\* the disk as the ProjectManager sees it
Store(d, m, r) == [dirs |-> d, metadata |-> m, results |-> r]

\* create_project: name from the clock and the query digest, mkdir with
\* exist_ok, metadata.json written anew
CreateProject(S, query, user_id, now) ==
    LET name == ProjectName(now, query)
    IN  [S EXCEPT
           !.dirs = @ \cup {name},
           !.metadata[name] =
               [exists |-> TRUE,
                doc |-> [project_id |-> name, query |-> query, user_id |-> user_id,
                         created_at |-> now, papers_found |-> 0,
                         papers_downloaded |-> 0, status |-> "created"]]]

\* Merge with the document started anew from the updates
MergeReplace(old, updates, now) ==
    [f \in DOMAIN updates \cup {"updated_at"} |->
        IF f = "updated_at" THEN now ELSE updates[f]]

\* metadata.update(updates); metadata['updated_at'] = now
Merge(old, updates, now) ==
    [f \in DOMAIN old \cup DOMAIN updates \cup {"updated_at"} |->
        IF f = "updated_at" THEN now
        ELSE IF f \in DOMAIN updates THEN updates[f]
        ELSE old[f]]

\* UpdateMetadata without the read of the existing metadata.json
UpdateMetadataNoRead(S, dir, updates, now) ==
    [S EXCEPT !.metadata[dir] = [exists |-> TRUE, doc |-> Merge(<<>>, updates, now)]]

\* update_metadata: read (or start empty), merge, stamp, write back
UpdateMetadata(S, dir, updates, now) ==
    LET old == IF S.metadata[dir].exists THEN S.metadata[dir].doc ELSE <<>>
    IN  [S EXCEPT !.metadata[dir] = [exists |-> TRUE, doc |-> Merge(old, updates, now)]]

\* json.dump(papers, f) into papers_metadata.json
SaveResults(S, dir, papers) ==
    [S EXCEPT !.results[dir] = [exists |-> TRUE, papers |-> papers]]

\* the locals of a command coroutine
CmdIdle ==
    [kind |-> "idle", pc |-> "idle", outcome |-> "", project |-> TargetDir,
     parts |-> <<>>, query |-> <<>>, start_year |-> 0, end_year |-> 0, max_results |-> 0,
     papers |-> <<>>, i |-> 0, downloaded |-> 0, failed |-> 0, log |-> <<>>,
     listing |-> <<>>]

\* ------------------------------------------------------------- requests

\* the timeout argument of a session.get: given in seconds, or left to the
\* session (aiohttp.ClientSession() built without one)
TimeoutArg(secs) == [given |-> TRUE, secs |-> secs]
NoTimeoutArg == [given |-> FALSE, secs |-> 0]

DownloadTimeout == 30

\* ------------------------------------------------------- PubMedSearcher

NoYear == 0                          \* start_year / end_year left at None

Years == {1999, 2024}
Limits == {10, 50}

NoTerm == [kw |-> <<>>, clause |-> <<>>]

\* the arguments of a search_papers call
SearchCallArgs(keywords, start_year, end_year, max_results) ==
    [keywords |-> keywords, start_year |-> start_year, end_year |-> end_year,
     max_results |-> max_results]

SrchIdle ==
    [st |-> "idle", args |-> SearchCallArgs(<<>>, NoYear, NoYear, 0), ev |-> <<>>,
     pmids |-> <<>>, p1 |-> "none", p2 |-> "none", got |-> <<>>,
     timeout |-> NoTimeoutArg]

NoCall ==
    [args |-> SearchCallArgs(<<>>, NoYear, NoYear, 0), ev |-> <<>>, p1 |-> "none",
     p2 |-> "none", got |-> <<>>, ret |-> <<>>, raised |-> FALSE]

\* a request sent or a response received by one search_papers call
Event(e, term, retmax, ids) == [e |-> e, term |-> term, retmax |-> retmax, ids |-> ids]

\* SearchTerm with the range appended when either year is truthy
SearchTermEitherYear(keywords, start_year, end_year) ==
    [kw |-> keywords,
     clause |-> IF start_year # NoYear \/ end_year # NoYear
                THEN <<start_year, end_year>> ELSE <<>>]

\* search_term: the keywords, and the [PDAT] range when both years are truthy
SearchTerm(keywords, start_year, end_year) ==
    [kw |-> keywords,
     clause |-> IF start_year # NoYear /\ end_year # NoYear
                THEN <<start_year, end_year>> ELSE <<>>]

\* JoinIds with the identifiers in reverse order
JoinIdsReversed(ids) ==
    [k \in 1..(IF Len(ids) = 0 THEN 0 ELSE 2 * Len(ids) - 1) |->
        IF k % 2 = 1 THEN ids[Len(ids) + 1 - (k + 1) \div 2] ELSE ","]

\* ','.join(pmids)
JoinIds(ids) ==
    [k \in 1..(IF Len(ids) = 0 THEN 0 ELSE 2 * Len(ids) - 1) |->
        IF k % 2 = 1 THEN ids[(k + 1) \div 2] ELSE ","]

\* what the upstream may answer to esearch: the <Id> texts of the body
IdLists == {<<>>, <<"111">>, <<"111", "222">>, <<"222", "111">>, <<None>>}

SearchResponses ==
    [exc : {TRUE}, status : {0}, xml_ok : {FALSE}, ids : {<<>>}]
    \cup [exc : {FALSE}, status : {200, 500}, xml_ok : {FALSE}, ids : {<<>>}]
    \cup [exc : {FALSE}, status : {200, 500}, xml_ok : {TRUE}, ids : IdLists]

\* a <PubmedArticle> of the efetch body: wf = its XML is well formed; a field
\* is None when its element is missing
NoTitle == <<>>                      \* no <ArticleTitle> element

Entries ==
    [wf : {TRUE}, title : {<<"a">>}, doi : Dois \cup {None}, pmid : Pmids \cup {None}]
    \cup [wf : {TRUE}, title : {NoTitle}, doi : Dois, pmid : Pmids]
    \cup [wf : {FALSE}, title : {<<"a">>}, doi : Dois, pmid : Pmids]

\* how a response counts: raised, non-200, unparsable, or fine
Classify(r, parses) ==
    IF r.exc THEN "exc"
    ELSE IF r.status # 200 THEN "status"
    ELSE IF ~parses THEN "parse"
    ELSE "ok"

\* ET.fromstring(xml_data) succeeds on the efetch body
FetchParses(r) == r.xml_ok /\ \A k \in DOMAIN r.entries : r.entries[k].wf

\* title, doi and pmid of the returned dict (authors, abstract, year and
\* pdf_url are carried along and not read by the store or the acquirer)
ExtractPaperInfo(entry) ==
    [title |-> IF entry.title # NoTitle THEN entry.title ELSE DefaultTitle,
     doi |-> entry.doi,
     pmid |-> entry.pmid]

\* for article in root.findall('.//PubmedArticle'): papers.append(...)
ExtractAll(entries) == [k \in DOMAIN entries |-> ExtractPaperInfo(entries[k])]

\* from the call to the first await: the term, the parameters, the esearch GET
SrchEnter(keywords, start_year, end_year, max_results) ==
    [ret |-> "pending", papers |-> <<>>,
     s |-> [SrchIdle EXCEPT
              !.st = "esearch", !.timeout = NoTimeoutArg,
              !.args = SearchCallArgs(keywords, start_year, end_year, max_results),
              !.ev = <<Event("req_esearch",
                             SearchTerm(keywords, start_year, end_year),
                             max_results, <<>>)>>]]

SrchReturn(s, papers) == [ret |-> "return", papers |-> papers, s |-> s]
SrchRaise(s) == [ret |-> "raise", papers |-> <<>>, s |-> s]

\* except Exception as e: logger.error(...); return []
ReturnEmptyOnError(o) == IF o.ret = "raise" THEN SrchReturn(o.s, <<>>) ELSE o

\* _fetch_paper_details up to its await: the id list joined, the efetch GET
FetchEnter(s, pmids) ==
    ReturnEmptyOnError(
        IF \E k \in DOMAIN pmids : pmids[k] = None
        THEN SrchRaise(s)
        ELSE [ret |-> "pending", papers |-> <<>>,
              s |-> [s EXCEPT !.st = "efetch", !.pmids = pmids,
                              !.timeout = NoTimeoutArg,
                              !.ev = Append(s.ev, Event("req_efetch", NoTerm, 0,
                                                        JoinIds(pmids)))]])

\* OnSearchResponse without the "if not pmids: return []" test
OnSearchResponseNoEmptyTest(s, r) ==
    LET s1 == [s EXCEPT !.p1 = Classify(r, r.xml_ok),
                        !.ev = Append(s.ev, Event("resp_esearch", NoTerm, 0,
                                 IF ~r.exc /\ r.xml_ok THEN r.ids ELSE <<>>))]
    IN  ReturnEmptyOnError(
            IF r.exc THEN SrchRaise(s1)
            ELSE IF r.status # 200 THEN SrchReturn(s1, <<>>)
            ELSE IF ~r.xml_ok THEN SrchRaise(s1)
            ELSE FetchEnter(s1, r.ids))

\* search_papers from the esearch response on: status test, parse, the
\* <Id> list, the empty-list return, the call of _fetch_paper_details
OnSearchResponse(s, r) ==
    LET s1 == [s EXCEPT !.p1 = Classify(r, r.xml_ok),
                        !.ev = Append(s.ev, Event("resp_esearch", NoTerm, 0,
                                 IF ~r.exc /\ r.xml_ok THEN r.ids ELSE <<>>))]
    IN  ReturnEmptyOnError(
            IF r.exc THEN SrchRaise(s1)
            ELSE IF r.status # 200 THEN SrchReturn(s1, <<>>)
            ELSE IF ~r.xml_ok THEN SrchRaise(s1)
            ELSE IF r.ids = <<>> THEN SrchReturn(s1, <<>>)
            ELSE FetchEnter(s1, r.ids))

\* _fetch_paper_details from the efetch response on: the whole body parsed
\* by ET.fromstring, then one record per article (_extract_paper_info reads
\* elements with find() and .text only, so its except branch and the
\* "if paper_info" skip are never taken)
OnFetchResponse(s, r) ==
    LET s1 == [s EXCEPT !.p2 = Classify(r, FetchParses(r)),
                        !.got = r.entries,
                        !.ev = Append(s.ev, Event("resp_efetch", NoTerm, 0, <<>>))]
    IN  ReturnEmptyOnError(
            IF r.exc THEN SrchRaise(s1)
            ELSE IF ~FetchParses(r) THEN SrchRaise(s1)
            ELSE SrchReturn(s1, ExtractAll(r.entries)))

\* a completed call as the caller sees it
SearchRecord(o) ==
    [args |-> o.s.args, ev |-> o.s.ev, p1 |-> o.s.p1, p2 |-> o.s.p2, got |-> o.s.got,
     ret |-> o.papers, raised |-> o.ret = "raise"]

\* --------------------------------------------------- _try_download_paper

AcqIdle ==
    [st |-> "idle", paper |-> NoPaper, dir |-> TargetDir, idx |-> 0,
     reqs |-> <<>>, dl |-> 0, pre |-> "absent", timeout |-> NoTimeoutArg]

SetFile(fs, dir, name, v) == [fs EXCEPT ![dir][name] = v]

AcqOut(ret, a, fs) == [ret |-> ret, a |-> a, fs |-> fs]

\* for url in urls_to_try: ... session.get(url, timeout=30); after the last
\* candidate, return False
NextCandidate(a, fs) ==
    IF a.idx < Len(UrlsToTry(a.paper))
    THEN AcqOut("pending",
                [a EXCEPT !.st = "get", !.idx = a.idx + 1,
                          !.timeout = TimeoutArg(DownloadTimeout),
                          !.reqs = Append(a.reqs, UrlsToTry(a.paper)[a.idx + 1])],
                fs)
    ELSE AcqOut("False", a, fs)

\* AcqEnter without the exists() short-circuit
AcqEnterNoSkip(paper, dir, fs) ==
    NextCandidate([AcqIdle EXCEPT !.paper = paper, !.dir = dir,
                                  !.pre = fs[dir][Filename(paper)]], fs)

\* from the call to the first await: file name, exists() short-circuit,
\* candidate list, first GET
AcqEnter(paper, dir, fs) ==
    LET a0 == [AcqIdle EXCEPT !.paper = paper, !.dir = dir,
                              !.pre = fs[dir][Filename(paper)]]
    IN  IF fs[dir][Filename(paper)] # "absent"
        THEN AcqOut("True", a0, fs)
        ELSE NextCandidate(a0, fs)

\* except Exception as e: logger.debug(...); continue -- and the loop going
\* on when the body ends without a return
ContinueOnError(o) ==
    IF o.ret \in {"raise", "next"} THEN NextCandidate(o.a, o.fs) ELSE o

\* except Exception as e: logger.debug(...), then return False
FalseOnError(o) ==
    IF o.ret \in {"raise", "next"} THEN AcqOut("False", o.a, o.fs) ELSE o

\* _download_pdf_direct up to its await: the second GET
DirectEnter(a, fs) ==
    AcqOut("pending",
           [a EXCEPT !.st = "get2", !.timeout = TimeoutArg(DownloadTimeout),
                     !.reqs = Append(a.reqs, "pdf_url")],
           fs)

\* the body of "async with session.get(url, timeout=30) as response"
OnCandidateResponse(a, fs, r) ==
    ContinueOnError(
        IF r.exc THEN AcqOut("raise", a, fs)
        ELSE IF r.status # 200 THEN AcqOut("next", a, fs)
        ELSE IF r.ctype = "application/pdf"
        THEN AcqOut("pending", [a EXCEPT !.st = "stream"],
                    SetFile(fs, a.dir, Filename(a.paper), "partial"))
        ELSE IF r.ctype = "application/json"
        THEN IF ~r.json_ok THEN AcqOut("raise", a, fs)
             ELSE IF r.is_oa /\ r.has_loc /\ r.has_url THEN DirectEnter(a, fs)
             ELSE AcqOut("next", a, fs)
        ELSE AcqOut("next", a, fs))

\* async for chunk in response.content.iter_chunked(8192): f.write(chunk)
\* and the return True after it
OnChunk(a, fs, e) ==
    ContinueOnError(
        IF e = "chunk" THEN AcqOut("pending", a, fs)
        ELSE IF e = "eof"
        THEN AcqOut("True", [a EXCEPT !.dl = a.dl + 1],
                    SetFile(fs, a.dir, Filename(a.paper), "complete"))
        ELSE AcqOut("raise", a, fs))

\* _download_pdf_direct: the status test of the second GET, the file opened
OnDirectResponse(a, fs, r) ==
    FalseOnError(
        IF r.exc THEN AcqOut("raise", a, fs)
        ELSE IF r.status # 200 THEN AcqOut("next", a, fs)
        ELSE AcqOut("pending", [a EXCEPT !.st = "stream2"],
                    SetFile(fs, a.dir, Filename(a.paper), "partial")))

\* _download_pdf_direct: the chunk loop and the return True after it
OnDirectChunk(a, fs, e) ==
    FalseOnError(
        IF e = "chunk" THEN AcqOut("pending", a, fs)
        ELSE IF e = "eof"
        THEN AcqOut("True", [a EXCEPT !.dl = a.dl + 1],
                    SetFile(fs, a.dir, Filename(a.paper), "complete"))
        ELSE AcqOut("raise", a, fs))

\* a completed call as the caller sees it
CallRecord(o) ==
    [paper |-> o.a.paper, pre |-> o.a.pre,
     post |-> o.fs[o.a.dir][Filename(o.a.paper)],
     ret |-> o.ret, reqs |-> o.a.reqs, dl |-> o.a.dl]

\* ------------------------------------------------- the search command

\* a command received starts the first idle coroutine
Free(t) ==
    /\ cmd[t].kind = "idle"
    /\ \A u \in Tasks : u < t => cmd[u].kind # "idle"
    /\ issued < MaxCommands

\* str(ctx.author.id)
Author == "user"

DefaultMaxResults == 10
MaxResultsCap == 50
YearMin == 1900
YearMax == 2030

\* one whitespace-separated part of the command text: what isdigit(), len()
\* and int() say of it
Word(w) == [text |-> w, digits |-> FALSE, len |-> 0, val |-> 0]
Number(text, len, val) == [text |-> text, digits |-> TRUE, len |-> len, val |-> val]

NoArgs ==
    [keywords |-> <<>>, start_year |-> NoYear, end_year |-> NoYear,
     max_results |-> DefaultMaxResults]

\* ParsePart with int(part) taken as it is, without min(..., 50)
ParsePartNoCap(acc, part) ==
    IF part.digits /\ part.len = 4
    THEN IF YearMin <= part.val /\ part.val <= YearMax
         THEN IF acc.start_year = NoYear
              THEN [acc EXCEPT !.start_year = part.val]
              ELSE [acc EXCEPT !.end_year = part.val]
         ELSE acc
    ELSE IF part.digits
    THEN [acc EXCEPT !.max_results = part.val]
    ELSE [acc EXCEPT !.keywords = Append(@, part.text)]

\* the body of "for part in parts"
ParsePart(acc, part) ==
    IF part.digits /\ part.len = 4
    THEN IF YearMin <= part.val /\ part.val <= YearMax
         THEN IF acc.start_year = NoYear
              THEN [acc EXCEPT !.start_year = part.val]
              ELSE [acc EXCEPT !.end_year = part.val]
         ELSE acc
    ELSE IF part.digits
    THEN [acc EXCEPT !.max_results =
                        IF part.val < MaxResultsCap THEN part.val ELSE MaxResultsCap]
    ELSE [acc EXCEPT !.keywords = Append(@, part.text)]

RECURSIVE ParseArgs(_, _)
ParseArgs(parts, acc) ==
    IF parts = <<>> THEN acc
    ELSE ParseArgs(Tail(parts), ParsePart(acc, Head(parts)))

\* the command is received: arguments parsed; either the rejection or the
\* "Searching" message is sent
SearchCommand(t, parts) ==
    LET a == ParseArgs(parts, NoArgs)
    IN  /\ Free(t)
        /\ issued' = issued + 1
        /\ cmd' = [cmd EXCEPT ![t] =
              IF Len(parts) < 1 \/ a.keywords = <<>>
              THEN [CmdIdle EXCEPT !.kind = "search", !.pc = "reply",
                                   !.parts = parts, !.outcome = "rejected"]
              ELSE [CmdIdle EXCEPT !.kind = "search", !.pc = "announce",
                                   !.parts = parts,
                                   !.query = a.keywords,
                                   !.start_year = a.start_year,
                                   !.end_year = a.end_year,
                                   !.max_results = a.max_results]]
        /\ UNCHANGED <<store, files, acq, srch, hist, last, creations>>

\* the message is out: the project is created and the searcher called
SearchStart(t) ==
    LET c == cmd[t]
        S == CreateProject(Store(dirs, metadata, results), c.query, Author, clock)
        o == SrchEnter(c.query, c.start_year, c.end_year, c.max_results)
    IN  /\ c.kind = "search" /\ c.pc = "announce"
        /\ dirs' = S.dirs /\ metadata' = S.metadata /\ results' = S.results
        /\ creations' = Append(creations, ProjectName(clock, c.query))
        /\ cmd' = [cmd EXCEPT ![t] = [c EXCEPT !.pc = "searching",
                                               !.project = ProjectName(clock, c.query)]]
        /\ srch' = [srch EXCEPT ![t] = o.s]
        /\ UNCHANGED <<clock, files, acq, hist, last, issued>>

\* search_papers returns to the search command: nothing found, or the
\* metadata updated and the results saved; then the last message is sent
ReturnSearchCommand(t, o) ==
    LET c == cmd[t]
        S0 == Store(dirs, metadata, results)
        S == IF o.ret = "raise" \/ o.papers = <<>> THEN S0
             ELSE SaveResults(
                      UpdateMetadata(S0, c.project,
                          [papers_found |-> Len(o.papers), status |-> "search_complete"],
                          clock),
                      c.project, o.papers)
    IN  /\ dirs' = S.dirs /\ metadata' = S.metadata /\ results' = S.results
        /\ cmd' = [cmd EXCEPT ![t] =
              [c EXCEPT !.pc = "reply", !.papers = o.papers,
                        !.outcome = IF o.ret = "raise" THEN "error"
                                    ELSE IF o.papers = <<>> THEN "no_papers"
                                    ELSE "found"]]
        /\ srch' = [srch EXCEPT ![t] = SrchIdle]
        /\ UNCHANGED <<clock, files, acq, trail>>

\* the last message of a command is out: the coroutine ends
Reply(t) ==
    /\ cmd[t].pc = "reply"
    /\ cmd' = [cmd EXCEPT ![t] = CmdIdle]
    /\ UNCHANGED <<store, files, acq, srch, trail>>

\* ----------------------------------------------- the download command

ProgressEvery == 5

Waiting(c, a, fs) == [c |-> c, a |-> a, fs |-> fs]

\* Counted with the "else: failed += 1" of a record without doi left out
CountedSkipsUncounted(c, passed, ret, reqs) ==
    [c EXCEPT !.downloaded = IF ret = "True" THEN @ + 1 ELSE @,
              !.failed = IF ret = "True" \/ ~passed THEN @ ELSE @ + 1,
              !.log = Append(@, [passed |-> passed, ret |-> ret, reqs |-> reqs])]

\* success / failure of one paper counted
Counted(c, passed, ret, reqs) ==
    [c EXCEPT !.downloaded = IF ret = "True" THEN @ + 1 ELSE @,
              !.failed = IF ret = "True" THEN @ ELSE @ + 1,
              !.log = Append(@, [passed |-> passed, ret |-> ret, reqs |-> reqs])]

\* the loop "for i, paper in enumerate(papers)" from paper c.i + 1 up to the
\* next await: a GET of the acquirer, or the progress message
RECURSIVE ProcessPapers(_, _)
AfterPaper(c, fs) ==
    IF (c.i + 1) % ProgressEvery = 0 \/ c.i + 1 = Len(c.papers)
    THEN Waiting([c EXCEPT !.i = c.i + 1, !.pc = "progress"], AcqIdle, fs)
    ELSE ProcessPapers([c EXCEPT !.i = c.i + 1], fs)

ProcessPapers(c, fs) ==
    LET paper == c.papers[c.i + 1]
        o == AcqEnter(paper, c.project, fs)
    IN  IF Truthy(paper.doi)
        THEN IF o.ret = "pending"
             THEN Waiting([c EXCEPT !.pc = "acquiring"], o.a, o.fs)
             ELSE AfterPaper(Counted(c, TRUE, o.ret, o.a.reqs), o.fs)
        ELSE AfterPaper(Counted(c, FALSE, "False", <<>>), fs)

\* DownloadCommand without the two exists() tests
DownloadCommandNoLookup(t, name) ==
    /\ Free(t)
    /\ issued' = issued + 1
    /\ cmd' = [cmd EXCEPT ![t] =
          [CmdIdle EXCEPT !.kind = "download", !.pc = "announce",
                          !.project = name, !.papers = results[name].papers]]
    /\ UNCHANGED <<store, files, acq, srch, hist, last, creations>>

\* the command is received: project and results looked up, the papers
\* loaded; either the not-found message or the "Downloading" message is sent
DownloadCommand(t, name) ==
    /\ Free(t)
    /\ issued' = issued + 1
    /\ cmd' = [cmd EXCEPT ![t] =
          IF name \notin dirs
          THEN [CmdIdle EXCEPT !.kind = "download", !.pc = "reply",
                               !.project = name, !.outcome = "project_not_found"]
          ELSE IF ~results[name].exists
          THEN [CmdIdle EXCEPT !.kind = "download", !.pc = "reply",
                               !.project = name, !.outcome = "no_papers_metadata"]
          ELSE [CmdIdle EXCEPT !.kind = "download", !.pc = "announce",
                               !.project = name, !.papers = results[name].papers]]
    /\ UNCHANGED <<store, files, acq, srch, hist, last, creations>>

\* after the loop: update_metadata with the count and download_complete,
\* then the "Download Complete" message is sent
FinishDownload(t, c) ==
    LET S == UpdateMetadata(Store(dirs, metadata, results), c.project,
                 [papers_downloaded |-> c.downloaded, status |-> "download_complete"],
                 clock)
    IN  /\ dirs' = S.dirs /\ metadata' = S.metadata /\ results' = S.results
        /\ cmd' = [cmd EXCEPT ![t] = [c EXCEPT !.pc = "reply", !.outcome = "complete"]]
        /\ UNCHANGED <<clock, files, acq, srch, trail>>

\* the loop goes on up to its next await
ContinueDownload(t, w) ==
    /\ cmd' = [cmd EXCEPT ![t] = w.c]
    /\ acq' = [acq EXCEPT ![t] = w.a]
    /\ files' = w.fs
    /\ UNCHANGED <<store, srch, trail>>

\* the "Downloading" message is out: the loop starts
DownloadStart(t) ==
    /\ cmd[t].kind = "download" /\ cmd[t].pc = "announce"
    /\ IF cmd[t].papers = <<>>
       THEN FinishDownload(t, cmd[t])
       ELSE ContinueDownload(t, ProcessPapers(cmd[t], files))

\* a progress message is out: the next paper, or the end of the loop
Progress(t) ==
    /\ cmd[t].kind = "download" /\ cmd[t].pc = "progress"
    /\ IF cmd[t].i = Len(cmd[t].papers)
       THEN FinishDownload(t, cmd[t])
       ELSE ContinueDownload(t, ProcessPapers(cmd[t], files))

\* _try_download_paper returns to the download loop
ReturnDownload(t, o) ==
    ContinueDownload(t, AfterPaper(Counted(cmd[t], TRUE, o.ret, o.a.reqs), o.fs))

\* --------------------------------------------------- the projects command

\* the orders in which base_dir.iterdir() may yield a set of directories
Orders(D) ==
    {o \in [1..Cardinality(D) -> D] : \A d \in D : \E k \in DOMAIN o : o[k] = d}

\* one of them
AnOrder(D) == CHOOSE o \in Orders(D) : TRUE

\* ListProjects with the exists() test of metadata.json left out
RECURSIVE ListProjectsNoSkip(_, _)
ListProjectsNoSkip(order, m) ==
    IF order = <<>> THEN <<>>
    ELSE <<<<Head(order), m[Head(order)].doc>>>> \o ListProjectsNoSkip(Tail(order), m)

\* for project_dir in base_dir.iterdir(): a directory with a metadata.json
\* gives (name, document), any other is passed over
RECURSIVE ListProjects(_, _)
ListProjects(order, m) ==
    IF order = <<>> THEN <<>>
    ELSE (IF m[Head(order)].exists
          THEN <<<<Head(order), m[Head(order)].doc>>>> ELSE <<>>)
             \o ListProjects(Tail(order), m)

\* list_projects: the list built, then "No projects found" or the embed sent
ListCommand(t, order) ==
    /\ Free(t)
    /\ issued' = issued + 1
    /\ cmd' = [cmd EXCEPT ![t] =
          [CmdIdle EXCEPT
             !.kind = "list", !.pc = "reply",
             !.listing = ListProjects(order, metadata),
             !.outcome = IF ListProjects(order, metadata) = <<>>
                         THEN "no_projects" ELSE "listed"]]
    /\ UNCHANGED <<store, files, acq, srch, hist, last, creations>>

\* a second passes
Tick ==
    /\ clock < MaxClock
    /\ clock' = clock + 1
    /\ UNCHANGED <<dirs, metadata, results, files, cmd, acq, srch, trail>>

\* ------------------------------------------------------------ the calls

\* _try_download_paper returns to a direct caller
ReturnDirect(t, o) ==
    /\ hist' = Append(hist, CallRecord(o))
    /\ acq' = [acq EXCEPT ![t] = AcqIdle]
    /\ files' = o.fs
    /\ UNCHANGED <<store, cmd, srch, last, issued, creations>>

\* one step of _try_download_paper: it awaits again, or returns to its caller
Resume(t, o) ==
    IF o.ret = "pending"
    THEN /\ acq' = [acq EXCEPT ![t] = o.a]
         /\ files' = o.fs
         /\ UNCHANGED <<store, cmd, srch, trail>>
    ELSE IF cmd[t].kind = "download" THEN ReturnDownload(t, o)
    ELSE ReturnDirect(t, o)

\* search_papers returns to a direct caller
ReturnSearchDirect(t, o) ==
    /\ last' = SearchRecord(o)
    /\ srch' = [srch EXCEPT ![t] = SrchIdle]
    /\ UNCHANGED <<store, files, cmd, acq, hist, issued, creations>>

\* one step of search_papers: it awaits again, or returns to its caller
\* (last holds a call's record from its return to the next call)
ResumeSearch(t, o) ==
    IF o.ret = "pending"
    THEN /\ srch' = [srch EXCEPT ![t] = o.s]
         /\ last' = IF srch[t].st = "idle" THEN NoCall ELSE last
         /\ UNCHANGED <<store, files, cmd, acq, hist, issued, creations>>
    ELSE IF cmd[t].kind = "search" THEN ReturnSearchCommand(t, o)
    ELSE ReturnSearchDirect(t, o)

\* search(keywords, yearFrom, yearTo, maxResults) called directly
SearcherCall(t, keywords, start_year, end_year, max_results) ==
    /\ cmd[t].kind = "searcher"
    /\ srch[t].st = "idle"
    /\ ResumeSearch(t, SrchEnter(keywords, start_year, end_year, max_results))

SearchResponse(t, r) ==
    /\ srch[t].st = "esearch"
    /\ ResumeSearch(t, OnSearchResponse(srch[t], r))

FetchResponse(t, r) ==
    /\ srch[t].st = "efetch"
    /\ ResumeSearch(t, OnFetchResponse(srch[t], r))

\* acquire(paper, targetDir) called directly
AcquireCall(t, paper) ==
    /\ cmd[t].kind = "acquire"
    /\ acq[t].st = "idle"
    /\ Len(hist) < MaxCalls
    /\ Resume(t, AcqEnter(paper, TargetDir, files))

CandidateResponse(t, r) ==
    /\ acq[t].st = "get"
    /\ Resume(t, OnCandidateResponse(acq[t], files, r))

StreamChunk(t, e) ==
    /\ acq[t].st = "stream"
    /\ Resume(t, OnChunk(acq[t], files, e))

DirectResponse(t, r) ==
    /\ acq[t].st = "get2"
    /\ Resume(t, OnDirectResponse(acq[t], files, r))

DirectChunk(t, e) ==
    /\ acq[t].st = "stream2"
    /\ Resume(t, OnDirectChunk(acq[t], files, e))

AcquireStep(t) ==
    \/ \E r \in CandidateResponses : CandidateResponse(t, r)
    \/ \E e \in ChunkEvents : StreamChunk(t, e)
    \/ \E r \in DirectResponses : DirectResponse(t, r)
    \/ \E e \in ChunkEvents : DirectChunk(t, e)

\* ------------------------------------------------ specification: acquire

\* one project directory, as create_project leaves it, and nothing running
InitStore ==
    /\ clock = 0
    /\ dirs = {TargetDir}
    /\ metadata = [d \in ProjectNames |-> NoDoc]
    /\ results = [d \in ProjectNames |-> NoResults]
    /\ files = [d \in ProjectNames |-> [n \in Filenames |-> "absent"]]
    /\ acq = [t \in Tasks |-> AcqIdle]
    /\ srch = [t \in Tasks |-> SrchIdle]
    /\ hist = <<>>
    /\ last = NoCall
    /\ issued = 0
    /\ creations = <<>>

InitAcquire ==
    /\ InitStore
    /\ cmd = [t \in Tasks |-> IF t = 1 THEN [CmdIdle EXCEPT !.kind = "acquire"]
                                       ELSE CmdIdle]

NextAcquire ==
    \E t \in Tasks :
        \/ \E paper \in AcquirePapers : AcquireCall(t, paper)
        \/ AcquireStep(t)

SpecAcquire == InitAcquire /\ [][NextAcquire]_vars

\* ------------------------------------------------- specification: search

MaxEntries == 2      \* <PubmedArticle> elements in one efetch body

SeqsUpTo(S, n) == UNION {[1..k -> S] : k \in 0..n}

\* what the upstream may answer to efetch
FetchResponses ==
    [exc : {TRUE}, status : {0}, xml_ok : {FALSE}, entries : {<<>>}]
    \cup [exc : {FALSE}, status : {200, 500}, xml_ok : {FALSE}, entries : {<<>>}]
    \cup [exc : {FALSE}, status : {200, 500}, xml_ok : {TRUE},
          entries : SeqsUpTo(Entries, MaxEntries)]

InitSearch ==
    /\ InitStore
    /\ cmd = [t \in Tasks |-> IF t = 1 THEN [CmdIdle EXCEPT !.kind = "searcher"]
                                       ELSE CmdIdle]

NextSearch ==
    \E t \in Tasks :
        \/ \E kw \in Queries, sy \in Years \cup {NoYear}, ey \in Years \cup {NoYear},
              mx \in Limits : SearcherCall(t, kw, sy, ey, mx)
        \/ \E r \in SearchResponses : SearchResponse(t, r)
        \/ \E r \in FetchResponses : FetchResponse(t, r)

SpecSearch == InitSearch /\ [][NextSearch]_vars

\* ----------------------------------------------- specification: commands

\* the command texts users send to "search"
CommandArgs ==
    {<<Word("crispr")>>, <<Word("phage")>>, <<Number("2024", 4, 2024)>>}

\* what the upstream answers while commands run
CommandSearchResponses ==
    {r \in SearchResponses : r.ids \in {<<>>, <<"111">>}}

CommandEntries ==
    [wf : {TRUE}, title : {<<"a">>}, doi : Dois \cup {None}, pmid : Pmids]

MaxFound == 1        \* papers one search of a command finds

CommandFetchResponses ==
    [exc : {TRUE}, status : {0}, xml_ok : {FALSE}, entries : {<<>>}]
    \cup [exc : {FALSE}, status : {200}, xml_ok : {TRUE},
          entries : SeqsUpTo(CommandEntries, MaxFound)]

Init ==
    /\ clock = 0
    /\ dirs = {}
    /\ metadata = [d \in ProjectNames |-> NoDoc]
    /\ results = [d \in ProjectNames |-> NoResults]
    /\ files = [d \in ProjectNames |-> [n \in Filenames |-> "absent"]]
    /\ cmd = [t \in Tasks |-> CmdIdle]
    /\ acq = [t \in Tasks |-> AcqIdle]
    /\ srch = [t \in Tasks |-> SrchIdle]
    /\ hist = <<>>
    /\ last = NoCall
    /\ issued = 0
    /\ creations = <<>>

Next ==
    \/ Tick
    \/ \E t \in Tasks :
          \/ \E parts \in CommandArgs : SearchCommand(t, parts)
          \/ SearchStart(t)
          \/ \E r \in CommandSearchResponses : SearchResponse(t, r)
          \/ \E r \in CommandFetchResponses : FetchResponse(t, r)
          \/ \E name \in ProjectNames : DownloadCommand(t, name)
          \/ DownloadStart(t)
          \/ Progress(t)
          \/ AcquireStep(t)
          \/ ListCommand(t, AnOrder(dirs))
          \/ Reply(t)

Spec == Init /\ [][Next]_vars

\* ------------------------------------ specification: the search command

\* command texts with years and limits, in and out of range
SearchArgs ==
    {<<>>,
     <<Number("2024", 4, 2024)>>,
     <<Word("crispr")>>,
     <<Word("crispr"), Number("0", 1, 0)>>,
     <<Word("crispr"), Number("5", 1, 5)>>,
     <<Word("crispr"), Number("100", 3, 100)>>,
     <<Word("crispr"), Number("10000", 5, 10000)>>,
     <<Word("crispr"), Number("1800", 4, 1800)>>,
     <<Word("crispr"), Number("2024", 4, 2024)>>,
     <<Word("crispr"), Number("2024", 4, 2024), Number("1999", 4, 1999)>>}

\* search commands received and run within one second of the clock
NextSearchCommand ==
    \E t \in Tasks :
          \/ \E parts \in SearchArgs : SearchCommand(t, parts)
          \/ SearchStart(t)
          \/ \E r \in CommandSearchResponses : SearchResponse(t, r)
          \/ \E r \in CommandFetchResponses : FetchResponse(t, r)
          \/ Reply(t)

SpecSearchCommand == Init /\ [][NextSearchCommand]_vars

\* ---------------------------------- specification: the download command

MaxPapers == 6       \* records in the papers_metadata.json of a project

\* the records a search stored: without a doi, with both identifiers, with a
\* doi and no pmid, and so on in turn
PaperAt(k) ==
    IF k % 3 = 1 THEN [title |-> <<"a">>, doi |-> None, pmid |-> "111"]
    ELSE IF k % 3 = 2 THEN [title |-> <<"a">>, doi |-> "10.1/x", pmid |-> "111"]
    ELSE [title |-> <<"a", "!">>, doi |-> "10.1/x", pmid |-> None]

DownloadLists == {[k \in 1..n |-> PaperAt(k)] : n \in 1..MaxPapers}

SearchedDir == ProjectName(0, <<"crispr">>)    \* its search found papers
EmptyDir == ProjectName(0, <<"phage">>)        \* its search found none

\* the store after a search that found the papers and one that found none
SearchedStore(papers) ==
    LET S0 == Store({}, [d \in ProjectNames |-> NoDoc],
                    [d \in ProjectNames |-> NoResults])
        S1 == CreateProject(S0, <<"phage">>, Author, 0)
        S2 == CreateProject(S1, <<"crispr">>, Author, 0)
    IN  SaveResults(
            UpdateMetadata(S2, SearchedDir,
                [papers_found |-> Len(papers), status |-> "search_complete"], 0),
            SearchedDir, papers)

InitDownload ==
    /\ clock = 0
    /\ \E papers \in DownloadLists :
          /\ dirs = SearchedStore(papers).dirs
          /\ metadata = SearchedStore(papers).metadata
          /\ results = SearchedStore(papers).results
    /\ files = [d \in ProjectNames |-> [n \in Filenames |-> "absent"]]
    /\ cmd = [t \in Tasks |-> CmdIdle]
    /\ acq = [t \in Tasks |-> AcqIdle]
    /\ srch = [t \in Tasks |-> SrchIdle]
    /\ hist = <<>>
    /\ last = NoCall
    /\ issued = 0
    /\ creations = <<>>

\* download commands received one after the other
NextDownload ==
    \E t \in Tasks :
        \/ /\ \A u \in Tasks : cmd[u].kind = "idle"
           /\ \E name \in ProjectNames : DownloadCommand(t, name)
        \/ DownloadStart(t)
        \/ Progress(t)
        \/ AcquireStep(t)
        \/ Reply(t)

SpecDownload == InitDownload /\ [][NextDownload]_vars

\* ------------------------------------- specification: the project store

\* the partial documents handed to update_metadata: those of the two
\* commands, a field the document does not have yet, and no field at all
UpdateSets ==
    {[papers_found |-> n, status |-> "search_complete"] : n \in 1..2}
        \cup {[papers_downloaded |-> n, status |-> "download_complete"] : n \in 0..1}
        \cup {[note |-> "x"], <<>>}

\* a call as its caller sees it: the documents before and after
StoreRecord(op, dir, updates, now, before, after) ==
    [op |-> op, dir |-> dir, updates |-> updates, now |-> now,
     before |-> before, after |-> after]

\* create_project called directly
CreateCall(t, query) ==
    LET S == CreateProject(Store(dirs, metadata, results), query, Author, clock)
    IN  /\ cmd[t].kind = "store"
        /\ issued < MaxCommands
        /\ issued' = issued + 1
        /\ dirs' = S.dirs /\ metadata' = S.metadata /\ results' = S.results
        /\ hist' = <<StoreRecord("create", ProjectName(clock, query), <<>>, clock,
                                 metadata, S.metadata)>>
        /\ UNCHANGED <<clock, files, cmd, acq, srch, last, creations>>

\* update_metadata called directly on a project directory
UpdateCall(t, dir, updates) ==
    LET S == UpdateMetadata(Store(dirs, metadata, results), dir, updates, clock)
    IN  /\ cmd[t].kind = "store"
        /\ dir \in dirs
        /\ issued < MaxCommands
        /\ issued' = issued + 1
        /\ dirs' = S.dirs /\ metadata' = S.metadata /\ results' = S.results
        /\ hist' = <<StoreRecord("update", dir, updates, clock, metadata, S.metadata)>>
        /\ UNCHANGED <<clock, files, cmd, acq, srch, last, creations>>

\* one directory without metadata.json to start with
InitProjectStore ==
    /\ InitStore
    /\ cmd = [t \in Tasks |-> IF t = 1 THEN [CmdIdle EXCEPT !.kind = "store"]
                                       ELSE CmdIdle]

NextProjectStore ==
    \/ Tick
    \/ \E t \in Tasks :
          \/ CreateCall(t, <<"crispr">>)
          \/ \E dir \in ProjectNames, updates \in UpdateSets : UpdateCall(t, dir, updates)

SpecProjectStore == InitProjectStore /\ [][NextProjectStore]_vars

\* ------------------------------------ specification: the projects command

\* metadata.json as create_project writes it
CreatedDoc(name) ==
    CreateProject(Store({}, [d \in ProjectNames |-> NoDoc],
                        [d \in ProjectNames |-> NoResults]),
                  IF name[2] = QueryHash(<<"crispr">>) THEN <<"crispr">> ELSE <<"phage">>,
                  Author, name[1]).metadata[name]

\* the base directory holds projects, and directories without metadata.json
\* made by other hands
InitList ==
    /\ clock = MaxClock
    /\ \E D \in SUBSET ProjectNames :
          /\ dirs = D
          /\ \E W \in SUBSET D :
                metadata = [d \in ProjectNames |-> IF d \in W THEN CreatedDoc(d) ELSE NoDoc]
    /\ results = [d \in ProjectNames |-> NoResults]
    /\ files = [d \in ProjectNames |-> [n \in Filenames |-> "absent"]]
    /\ cmd = [t \in Tasks |-> CmdIdle]
    /\ acq = [t \in Tasks |-> AcqIdle]
    /\ srch = [t \in Tasks |-> SrchIdle]
    /\ hist = <<>>
    /\ last = NoCall
    /\ issued = 0
    /\ creations = <<>>

\* projects commands received one after the other
NextList ==
    \E t \in Tasks :
        \/ /\ \A u \in Tasks : cmd[u].kind = "idle"
           /\ \E order \in Orders(dirs) : ListCommand(t, order)
        \/ Reply(t)

SpecList == InitList /\ [][NextList]_vars

\* ------------------------------- specification: interleaved downloads

\* the results of the project the commands are sent for: one record with
\* both identifiers, or that record and one with a doi only
ConcurrentLists == {<<PaperAt(2)>>, <<PaperAt(2), PaperAt(3)>>}

InitConcurrent ==
    /\ clock = 0
    /\ \E papers \in ConcurrentLists :
          /\ dirs = SearchedStore(papers).dirs
          /\ metadata = SearchedStore(papers).metadata
          /\ results = SearchedStore(papers).results
    /\ files = [d \in ProjectNames |-> [n \in Filenames |-> "absent"]]
    /\ cmd = [t \in Tasks |-> CmdIdle]
    /\ acq = [t \in Tasks |-> AcqIdle]
    /\ srch = [t \in Tasks |-> SrchIdle]
    /\ hist = <<>>
    /\ last = NoCall
    /\ issued = 0
    /\ creations = <<>>

\* download commands for one project, received at any time within one
\* second of the clock
NextConcurrent ==
    \E t \in Tasks :
        \/ DownloadCommand(t, SearchedDir)
        \/ DownloadStart(t)
        \/ Progress(t)
        \/ AcquireStep(t)
        \/ Reply(t)

SpecConcurrent == InitConcurrent /\ [][NextConcurrent]_vars

\* ---------------------------------------------------- claims: the acquirer

HasDoi(p) == Truthy(p.doi)
HasPmid(p) == Truthy(p.pmid)

\* C1: a direct call on a paper with a doi and a pmid and no target file never
\* raises, and whenever its DOI lookup candidate did not produce the file, the
\* direct repository URL was requested before the call returned.
C1_FallbackAlwaysRequested ==
    \A i \in DOMAIN hist :
        (HasDoi(hist[i].paper) /\ HasPmid(hist[i].paper) /\ hist[i].pre = "absent")
            => /\ hist[i].ret \in {"True", "False"}
               /\ \/ hist[i].ret = "True" /\ hist[i].reqs[Len(hist[i].reqs)] # "pmc"
                  \/ \E k \in DOMAIN hist[i].reqs : hist[i].reqs[k] = "pmc"

\* C2: a call that returns failure leaves no file at the target path unless
\* the file was there before the call.
C2_NoFileAfterFailure ==
    \A i \in DOMAIN hist :
        (hist[i].ret = "False" /\ hist[i].pre = "absent") => hist[i].post = "absent"

\* C3: a call on a paper with neither doi nor pmid returns failure and issues
\* no request, whatever earlier calls left in the directory.
C3_NoIdentifiersAlwaysFails ==
    \A i \in DOMAIN hist :
        (~HasDoi(hist[i].paper) /\ ~HasPmid(hist[i].paper))
            => hist[i].ret = "False" /\ hist[i].reqs = <<>>

C5_EveryRecordAcquired ==
    \A t \in Tasks :
        cmd[t].kind = "download" =>
            \A k \in DOMAIN cmd[t].log :
                /\ cmd[t].log[k].passed
                /\ HasPmid(cmd[t].papers[k]) =>
                      \/ cmd[t].log[k].ret = "True"
                      \/ \E n \in DOMAIN cmd[t].log[k].reqs :
                            cmd[t].log[k].reqs[n] = "pmc"

Rank(status) ==
    IF status = "created" THEN 1
    ELSE IF status = "search_complete" THEN 2
    ELSE 3

\* C6: no step writes into a project's metadata document a status earlier
\* than the one stored there.
C6_StatusNeverRegresses ==
    [][\A d \in ProjectNames :
          (metadata[d].exists /\ metadata'[d].exists)
              => Rank(metadata'[d].doc.status) >= Rank(metadata[d].doc.status)]_vars

\* C7: no two search invocations get the same project directory (so no
\* create_project writes over the documents of an existing project).
C7_OneProjectPerSearch ==
    \A i, j \in DOMAIN creations : i # j => creations[i] # creations[j]

\* ---------------------------------------------------- claims: the searcher

Failures == {"exc", "status", "parse"}

Count(ev, e) == Cardinality({k \in DOMAIN ev : ev[k].e = e})

\* the event logs of the running calls and of the last completed one
EventLogs == {srch[t].ev : t \in Tasks} \cup {last.ev}

\* C8: a search call never raises, and returns the empty sequence whenever a
\* phase met a network error, a non-200 status or an unparsable body.
C8_FailureGivesEmpty ==
    /\ ~last.raised
    /\ (last.p1 \in Failures \/ last.p2 \in Failures) => last.ret = <<>>

\* C9: a search call sends at most one esearch and at most one efetch
\* request; the efetch request follows the esearch response and carries
\* exactly the identifiers of that response, in its order, comma-separated.
C9_TwoPhasesOneBatch ==
    \A ev \in EventLogs :
        /\ Count(ev, "req_esearch") <= 1
        /\ Count(ev, "req_efetch") <= 1
        /\ \A k \in DOMAIN ev :
              ev[k].e = "req_efetch" =>
                \E j \in 1..(k - 1) :
                    /\ ev[j].e = "resp_esearch"
                    /\ Len(ev[k].ids) = 2 * Len(ev[j].ids) - 1
                    /\ \A n \in DOMAIN ev[j].ids : ev[k].ids[2 * n - 1] = ev[j].ids[n]
                    /\ \A n \in 1..(Len(ev[j].ids) - 1) : ev[k].ids[2 * n] = ","

\* C9 witness: a completed call whose efetch request carried two identifiers
C9_Witness ==
    \E k \in DOMAIN last.ev :
        /\ last.ev[k].e = "req_efetch"
        /\ Len(last.ev[k].ids) = 3
        /\ last.ev[k].ids[1] # last.ev[k].ids[3]

\* the call resolved an empty identifier list
ResolvedNone(c) ==
    /\ c.p1 = "ok"
    /\ \E k \in DOMAIN c.ev : c.ev[k].e = "resp_esearch" /\ c.ev[k].ids = <<>>

\* C10: a search call whose phase 1 resolves no identifier returns the empty
\* sequence, does not raise and sends no efetch request.
C10_ZeroIdsReturnsEmpty ==
    /\ ResolvedNone(last) =>
          /\ last.ret = <<>>
          /\ ~last.raised
          /\ Count(last.ev, "req_efetch") = 0
    /\ \A t \in Tasks : srch[t].st = "efetch" => srch[t].pmids # <<>>
    /\ \A ev \in EventLogs :
          \A k \in DOMAIN ev : ev[k].e = "req_efetch" => ev[k].ids # <<>>

\* C10 witness: a completed call that resolved no identifier
C10_Witness == ResolvedNone(last) /\ Len(last.ev) = 2

\* the records of the well-formed entries of a body, in its order
WellFormedRecords(entries) == ExtractAll(SelectSeq(entries, LAMBDA e : e.wf))

\* C11: a search call that received an efetch body returns one record per
\* entry that parses, in the order of the body, whatever the other entries.
C11_MalformedEntrySkipped ==
    (last.p2 \in {"ok", "parse", "status"} /\ last.got # <<>>)
        => last.ret = WellFormedRecords(last.got)

\* ------------------------------------------- claims: the search command

OutOfRangeYear(part) ==
    part.digits /\ part.len = 4 /\ ~(YearMin <= part.val /\ part.val <= YearMax)

NonPositiveLimit(part) == part.digits /\ part.len # 4 /\ part.val <= 0

Keywords(parts) == SelectSeq(parts, LAMBDA part : ~part.digits)

InvalidInput(parts) ==
    \/ Keywords(parts) = <<>>
    \/ \E k \in DOMAIN parts : OutOfRangeYear(parts[k]) \/ NonPositiveLimit(parts[k])

\* C12: a search command with no keyword, an out-of-range year or a
\* non-positive limit is rejected: it creates no project and sends no request.
C12_InvalidInputRejected ==
    \A t \in Tasks :
        (cmd[t].kind = "search" /\ InvalidInput(cmd[t].parts))
            => /\ cmd[t].pc = "reply" /\ cmd[t].outcome = "rejected"
               /\ srch[t].st = "idle"

\* the limits asked for in a command text
RequestedLimits(parts) ==
    {parts[k].val : k \in {n \in DOMAIN parts : parts[n].digits /\ parts[n].len # 4}}

\* C13: every esearch request of a search command carries a retmax of at
\* most 50, whatever limit the command text asked for.
C13_RetmaxAtMostFifty ==
    \A t \in Tasks :
        \A k \in DOMAIN srch[t].ev :
            srch[t].ev[k].e = "req_esearch" => srch[t].ev[k].retmax <= MaxResultsCap

\* C13 witness: a command that asked for more than 50 has sent its esearch
\* request, with retmax 50
C13_Witness ==
    \E t \in Tasks :
        /\ \E v \in RequestedLimits(cmd[t].parts) : v > MaxResultsCap
        /\ srch[t].st = "esearch"
        /\ srch[t].ev[1].retmax = MaxResultsCap

\* ------------------------------------------ claims: the search expression

\* the arguments and the event log of the running calls and of the last
\* completed one
SearchCalls ==
    {[args |-> srch[t].args, ev |-> srch[t].ev] : t \in Tasks}
        \cup {[args |-> last.args, ev |-> last.ev]}

BothYears(a) == a.start_year # NoYear /\ a.end_year # NoYear

\* C14: the term of the esearch request is the keywords, followed by the
\* range clause start:end exactly when both years were given, whatever their
\* order; with no year or one year it is the keywords alone.
C14_ClauseIffBothYears ==
    \A c \in SearchCalls :
        \A k \in DOMAIN c.ev :
            c.ev[k].e = "req_esearch" =>
                /\ c.ev[k].term.kw = c.args.keywords
                /\ BothYears(c.args)
                      => c.ev[k].term.clause = <<c.args.start_year, c.args.end_year>>
                /\ ~BothYears(c.args) => c.ev[k].term.clause = <<>>

\* C14 witness: a completed call given an inverted range, its clause sent
C14_Witness ==
    /\ BothYears(last.args)
    /\ last.args.start_year > last.args.end_year
    /\ last.ev # <<>>
    /\ last.ev[1].term.clause = <<last.args.start_year, last.args.end_year>>

\* ----------------------------------------- claims: the download command

NotFound == {"project_not_found", "no_papers_metadata"}

\* C15: a download command on a name that is no project directory, or on a
\* project without papers_metadata.json, ends with the message of that case
\* and nothing else: no request is sent and the store and the files are left
\* as they were.
C15_NotFoundReported ==
    [][\A t \in Tasks :
          /\ (cmd[t].kind = "idle" /\ cmd'[t].kind = "download"
                /\ (cmd'[t].project \notin dirs \/ ~results[cmd'[t].project].exists))
                => /\ cmd'[t].pc = "reply"
                   /\ cmd'[t].outcome =
                         IF cmd'[t].project \notin dirs THEN "project_not_found"
                         ELSE "no_papers_metadata"
                   /\ UNCHANGED <<store, files, acq, srch>>
          /\ (cmd[t].outcome \in NotFound /\ cmd'[t] # cmd[t])
                => /\ cmd'[t] = CmdIdle
                   /\ UNCHANGED <<store, files, acq, srch>>
          /\ (cmd[t].kind = "idle" /\ cmd'[t].kind = "download"
                /\ cmd'[t].project \in dirs /\ results[cmd'[t].project].exists)
                => cmd'[t].outcome \notin NotFound]_vars

\* C15 witness: a download command on a project without results document
\* has reported it
C15_Witness ==
    \E t \in Tasks :
        /\ cmd[t].kind = "download" /\ cmd[t].outcome = "no_papers_metadata"
        /\ cmd[t].project = EmptyDir /\ metadata[EmptyDir].exists

\* C20: a download command takes the papers in the order of the results
\* list, one acquisition at a time: the call in flight is on the paper that
\* follows those counted, and at every progress message and at completion
\* downloaded + failed is the number of papers gone through.
C20_SequentialCounts ==
    \A t \in Tasks :
        cmd[t].kind = "download" =>
            /\ Len(cmd[t].log) = cmd[t].downloaded + cmd[t].failed
            /\ \A k \in DOMAIN cmd[t].log :
                  cmd[t].log[k].passed = Truthy(cmd[t].papers[k].doi)
            /\ (acq[t].st # "idle") = (cmd[t].pc = "acquiring")
            /\ cmd[t].pc = "acquiring" =>
                  /\ acq[t].paper = cmd[t].papers[cmd[t].i + 1]
                  /\ cmd[t].downloaded + cmd[t].failed = cmd[t].i
            /\ cmd[t].pc = "progress" =>
                  /\ cmd[t].downloaded + cmd[t].failed = cmd[t].i
                  /\ cmd[t].i % ProgressEvery = 0 \/ cmd[t].i = Len(cmd[t].papers)
            /\ cmd[t].outcome = "complete" =>
                  cmd[t].downloaded + cmd[t].failed = Len(cmd[t].papers)

\* C20 witness: the progress message after the fifth of more than five
\* papers, some downloaded and some failed
C20_Witness ==
    \E t \in Tasks :
        /\ cmd[t].kind = "download" /\ cmd[t].pc = "progress"
        /\ cmd[t].i = ProgressEvery /\ Len(cmd[t].papers) > ProgressEvery
        /\ cmd[t].downloaded >= 1 /\ cmd[t].failed >= 1

\* -------------------------------------------- claims: the project store

\* the document of a directory, empty when there is no metadata.json
DocOf(m, dir) == IF m[dir].exists THEN m[dir].doc ELSE <<>>

\* C16: update_metadata leaves every other document alone and in the one it
\* writes gives each provided field the provided value, stamps updated_at and
\* keeps every other field; on a directory without document the result is
\* the provided fields and updated_at.
C16_UpdateFrame ==
    \A i \in DOMAIN hist :
        hist[i].op = "update" =>
            LET r == hist[i]
                old == DocOf(r.before, r.dir)
                new == DocOf(r.after, r.dir)
            IN  /\ r.after[r.dir].exists
                /\ DOMAIN new = DOMAIN old \cup DOMAIN r.updates \cup {"updated_at"}
                /\ \A f \in DOMAIN r.updates : new[f] = r.updates[f]
                /\ new["updated_at"] = r.now
                /\ \A f \in DOMAIN old \ (DOMAIN r.updates \cup {"updated_at"}) :
                      new[f] = old[f]
                /\ \A d \in ProjectNames \ {r.dir} : r.after[d] = r.before[d]

\* C16 witness: an update of status on a document that had a query and an
\* earlier updated_at
C16_Witness ==
    \E i \in DOMAIN hist :
        /\ hist[i].op = "update"
        /\ hist[i].before[hist[i].dir].exists
        /\ {"updated_at", "status", "query"} \subseteq DOMAIN hist[i].before[hist[i].dir].doc
        /\ "status" \in DOMAIN hist[i].updates
        /\ hist[i].before[hist[i].dir].doc["status"] # hist[i].updates["status"]
        /\ hist[i].after[hist[i].dir].doc["query"] = <<"crispr">>

\* ------------------------------------------------- claims: the requests

\* C17: every request awaited by a search or a download carries the
\* 30-second timeout.
C17_EveryRequestBounded ==
    \A t \in Tasks :
        /\ srch[t].st \in {"esearch", "efetch"}
              => srch[t].timeout = TimeoutArg(DownloadTimeout)
        /\ acq[t].st \in {"get", "get2"}
              => acq[t].timeout = TimeoutArg(DownloadTimeout)

\* ------------------------------------------ claims: the candidate order

\* the papers and request logs of the running calls and of the completed ones
AcquireLogs ==
    {[paper |-> acq[t].paper, reqs |-> acq[t].reqs] : t \in Tasks}
        \cup {[paper |-> hist[i].paper, reqs |-> hist[i].reqs] : i \in DOMAIN hist}

\* C18: a call requests the DOI lookup first and the direct repository URL
\* after it, each at most once, and once the file is complete the call has
\* returned success: no request is pending or sent after it.
C18_CandidateOrder ==
    /\ \A c \in AcquireLogs :
          /\ (c.reqs # <<>> /\ HasDoi(c.paper)) => c.reqs[1] = "unpaywall"
          /\ \A j, k \in DOMAIN c.reqs :
                j < k => /\ c.reqs[j] # c.reqs[k]
                         /\ c.reqs[j] = "pmc" => c.reqs[k] # "unpaywall"
    /\ \A t \in Tasks :
          acq[t].st # "idle"
              => files[acq[t].dir][Filename(acq[t].paper)] # "complete"
    /\ \A i \in DOMAIN hist :
          (hist[i].dl = 1) => hist[i].ret = "True" /\ hist[i].post = "complete"

\* C18 witness: a call on a paper with both identifiers got the file from its
\* first candidate and returned without a request to the second
C18_Witness ==
    \E i \in DOMAIN hist :
        /\ HasDoi(hist[i].paper) /\ HasPmid(hist[i].paper)
        /\ hist[i].ret = "True" /\ hist[i].dl = 1
        /\ hist[i].reqs = <<"unpaywall">>

\* ----------------------------------------- claims: the projects command

\* C19: the list of the projects command holds one entry (name, document)
\* for each directory with a metadata.json and none for any other directory,
\* and the command ends with its message whatever directories there are.
C19_ListExactlyProjects ==
    \A t \in Tasks :
        cmd[t].kind = "list" =>
            LET l == cmd[t].listing
            IN  /\ \A d \in dirs :
                      metadata[d].exists =>
                          Cardinality({k \in DOMAIN l : l[k][1] = d}) = 1
                /\ \A k \in DOMAIN l :
                      /\ l[k][1] \in dirs /\ metadata[l[k][1]].exists
                      /\ l[k][2] = metadata[l[k][1]].doc
                /\ cmd[t].outcome = IF l = <<>> THEN "no_projects" ELSE "listed"

\* C19 witness: a list of one entry taken among two directories, one of
\* them without metadata.json
C19_Witness ==
    \E t \in Tasks :
        /\ cmd[t].kind = "list" /\ Len(cmd[t].listing) = 1
        /\ Cardinality(dirs) = 2
        /\ \E d \in dirs : ~metadata[d].exists

\* --------------------------------------- claims: interleaved commands

DownloadFields == {"papers_downloaded", "status", "updated_at"}

\* C21: with download commands for one project interleaved, a metadata
\* document changes only in the step in which a command completes its loop,
\* and that step is one whole update of the document as it is then: the three
\* fields it names take its values and every other field keeps the value the
\* last update naming it gave it.
C21_WholeUpdates ==
    [][\A d \in ProjectNames :
          /\ metadata'[d] # metadata[d] =>
                \E t \in Tasks :
                    /\ cmd[t].kind = "download" /\ cmd[t].project = d
                    /\ cmd[t].outcome = "" /\ cmd'[t].outcome = "complete"
          /\ \A t \in Tasks :
                (cmd[t].project = d /\ cmd[t].outcome = ""
                    /\ cmd'[t].outcome = "complete")
                    => /\ metadata'[d].exists
                       /\ DOMAIN metadata'[d].doc =
                             DOMAIN DocOf(metadata, d) \cup DownloadFields
                       /\ metadata'[d].doc["papers_downloaded"] = cmd'[t].downloaded
                       /\ metadata'[d].doc["status"] = "download_complete"
                       /\ metadata'[d].doc["updated_at"] = clock
                       /\ \A f \in DOMAIN DocOf(metadata, d) \ DownloadFields :
                             metadata'[d].doc[f] = metadata[d].doc[f]]_vars

\* C21 witness: two download commands of the project have both completed,
\* with different counts; the document holds one of them and the
\* papers_found of the search
C21_Witness ==
    /\ \A t \in Tasks :
          /\ cmd[t].kind = "download" /\ cmd[t].project = SearchedDir
          /\ cmd[t].outcome = "complete"
    /\ \E t, u \in Tasks : cmd[t].downloaded # cmd[u].downloaded
    /\ \E t \in Tasks :
          metadata[SearchedDir].doc["papers_downloaded"] = cmd[t].downloaded
    /\ metadata[SearchedDir].doc["papers_found"] = Len(results[SearchedDir].papers)

\* C22: with download commands for one project interleaved, a paper is
\* counted as downloaded only when the file at its target path is completely
\* written.
C22_CountedOnlyWhenComplete ==
    \A t \in Tasks :
        cmd[t].kind = "download" =>
            \A k \in DOMAIN cmd[t].log :
                cmd[t].log[k].ret = "True"
                    => files[cmd[t].project][Filename(cmd[t].papers[k])] = "complete"

\* ------------------------------------- claims: the documents of a project

\* C23: a project with a papers_metadata.json has status search_complete or
\* download_complete and a papers_found equal to the number of its records;
\* a search that found no paper has left its project at status created, with
\* papers_found 0 and no papers_metadata.json.
C23_ResultsMatchMetadata ==
    /\ \A d \in ProjectNames :
          results[d].exists =>
              /\ metadata[d].exists
              /\ metadata[d].doc["status"] \in {"search_complete", "download_complete"}
              /\ metadata[d].doc["papers_found"] = Len(results[d].papers)
    /\ \A t \in Tasks :
          (cmd[t].kind = "search" /\ cmd[t].outcome = "no_papers") =>
              /\ metadata[cmd[t].project].doc["status"] = "created"
              /\ metadata[cmd[t].project].doc["papers_found"] = 0
              /\ ~results[cmd[t].project].exists

\* the files present in the papers directory of a project
PdfFiles(d) == {n \in Filenames : files[d][n] # "absent"}

\* C24: in every metadata document papers_downloaded is at most
\* papers_found, and once a download command of a project has completed
\* papers_downloaded is at most the number of files in its papers directory.
C24_DownloadedBounded ==
    /\ \A d \in ProjectNames :
          metadata[d].exists =>
              metadata[d].doc["papers_downloaded"] <= metadata[d].doc["papers_found"]
    /\ \A t \in Tasks :
          (cmd[t].kind = "download" /\ cmd[t].outcome = "complete") =>
              metadata[cmd[t].project].doc["papers_downloaded"]
                  <= Cardinality(PdfFiles(cmd[t].project))

====
